---- MODULE Spec2Model ----
(***************************************************************************)
(* Model of bin/subnet-calculator.py: calculate_subnet_cutouts and main.   *)
(*                                                                         *)
(* Strings are sequences of one-character strings, so that parsing,        *)
(* formatting and the lexicographic list sort are computed character by    *)
(* character.  Networks are records [version, network_address, prefixlen]  *)
(* as ipaddress.IPv4Network / IPv6Network hold them; a raised exception is *)
(* a record [error |-> <name>].  Addresses are integers as in the library; *)
(* the command lines drawn in Init keep every address below 2^31 and every *)
(* host part at most 24 bits wide.  The alphabet is lowercase letters,     *)
(* digits and "-", ".", "/", ":" (no scope ids, no uppercase hex).         *)
(***************************************************************************)
EXTENDS Integers, Sequences, FiniteSets, TLC

(* ------------------------------ characters ----------------------------- *)

\* Code points 45..58 in order, then 97..122.
Ascii45 == <<"-", ".", "/", "0", "1", "2", "3", "4", "5", "6", "7", "8", "9", ":">>

Lower == <<"a", "b", "c", "d", "e", "f", "g", "h", "i", "j", "k", "l", "m",
           "n", "o", "p", "q", "r", "s", "t", "u", "v", "w", "x", "y", "z">>

DecDigits == <<"0", "1", "2", "3", "4", "5", "6", "7", "8", "9">>

HexDigits == <<"0", "1", "2", "3", "4", "5", "6", "7", "8", "9",
               "a", "b", "c", "d", "e", "f">>

Elems(s) == {s[n] : n \in 1..Len(s)}

IndexOf(s, c) == CHOOSE n \in 1..Len(s) : s[n] = c

\* ord(c)
Ord(c) == IF c \in Elems(Ascii45) THEN 44 + IndexOf(Ascii45, c)
                                  ELSE 96 + IndexOf(Lower, c)

\* str.__lt__: lexicographic comparison by code point, a proper prefix first.
StrLess(a, b) ==
    \E n \in 1..Len(b) :
        /\ \A m \in 1..(n - 1) : m <= Len(a) /\ a[m] = b[m]
        /\ \/ n = Len(a) + 1
           \/ n <= Len(a) /\ Ord(a[n]) < Ord(b[n])

\* str.split(sep)
RECURSIVE Split(_, _)
Split(s, sep) ==
    IF \A n \in 1..Len(s) : s[n] # sep
    THEN <<s>>
    ELSE LET first == CHOOSE n \in 1..Len(s) :
                          s[n] = sep /\ \A m \in 1..(n - 1) : s[m] # sep
         IN  <<SubSeq(s, 1, first - 1)>>
             \o Split(SubSeq(s, first + 1, Len(s)), sep)

\* sep.join(parts)
RECURSIVE Join(_, _)
Join(parts, sep) ==
    IF Len(parts) = 0 THEN <<>>
    ELSE IF Len(parts) = 1 THEN parts[1]
    ELSE parts[1] \o <<sep>> \o Join(Tail(parts), sep)

\* s.isascii() and s.isdigit()
IsDigits(s) == Len(s) > 0 /\ \A n \in 1..Len(s) : s[n] \in Elems(DecDigits)

\* int(s, base) for a non-empty string of digits of that base
RECURSIVE IntOf(_, _, _)
IntOf(s, digits, base) ==
    IF Len(s) = 0 THEN 0
    ELSE IntOf(SubSeq(s, 1, Len(s) - 1), digits, base) * base
         + (IndexOf(digits, s[Len(s)]) - 1)

\* '%d' % n and '%x' % n
RECURSIVE StrOf(_, _, _)
StrOf(n, digits, base) ==
    IF n < base THEN <<digits[n + 1]>>
    ELSE StrOf(n \div base, digits, base) \o <<digits[(n % base) + 1]>>

RECURSIVE Pow2(_)
Pow2(n) == IF n = 0 THEN 1 ELSE 2 * Pow2(n - 1)

Err(name) == [error |-> name]

IsError(x) == "error" \in DOMAIN x

(* ------------------------- ipaddress: parsing -------------------------- *)
(* A parse that raises returns -1 (an integer result), <<>> (a list) or    *)
(* Err(<exception>) (a network).  Every value is bound once, as a          *)
(* parameter, and used from there.                                         *)

max_prefixlen(version) == IF version = 4 THEN 32 ELSE 128

\* if octet_int > 255: raise ValueError
octet_in_range(octet_int) == IF octet_int > 255 THEN -1 ELSE octet_int

\* IPv4Address._parse_octet: the octet, or -1 for ValueError
parse_octet(octet_str) ==
    IF Len(octet_str) = 0 THEN -1
    ELSE IF ~IsDigits(octet_str) THEN -1
    ELSE IF Len(octet_str) > 3 THEN -1
    ELSE IF octet_str # <<"0">> /\ octet_str[1] = "0" THEN -1
    ELSE octet_in_range(IntOf(octet_str, DecDigits, 10))

\* except ValueError: raise AddressValueError
octets_or_error(o) == IF \E n \in 1..Len(o) : o[n] = -1 THEN <<>> ELSE o

\* map(cls._parse_octet, octets) for octets = ip_str.split('.')
parse_octets(octets) ==
    IF Len(octets) # 4 THEN <<>>
    ELSE octets_or_error([n \in 1..4 |-> parse_octet(octets[n])])

\* IPv4Address._ip_int_from_string, as the four octets; <<>> for
\* AddressValueError
ip4_octets_from_string(ip_str) ==
    IF Len(ip_str) = 0 THEN <<>> ELSE parse_octets(Split(ip_str, "."))

\* int.from_bytes(octets, 'big'); -1 passes the AddressValueError on
ip4_int(o) ==
    IF o = <<>> THEN -1 ELSE ((o[1] * 256 + o[2]) * 256 + o[3]) * 256 + o[4]

\* if not (0 <= prefixlen <= cls._max_prefixlen): _report_invalid_netmask
prefixlen_in_range(prefixlen, version) ==
    IF prefixlen > max_prefixlen(version) THEN -1 ELSE prefixlen

\* _prefix_from_prefix_string: the prefix length, or -1 for NetmaskValueError
prefix_from_prefix_string(prefixlen_str, version) ==
    IF ~IsDigits(prefixlen_str) THEN -1
    ELSE prefixlen_in_range(IntOf(prefixlen_str, DecDigits, 10), version)

\* _prefix_from_ip_int on the octets o of a dotted quad: the length of a
\* netmask /1*0*/ or, failing that, of a hostmask /0*1*/; -1 for ValueError
prefix_from_ip_octets(o) ==
    LET bit(n) == (o[((n - 1) \div 8) + 1] \div Pow2(7 - ((n - 1) % 8))) % 2
        IsNetmask(p) == \A n \in 1..32 : bit(n) = (IF n <= p THEN 1 ELSE 0)
        IsHostmask(p) == \A n \in 1..32 : bit(n) = (IF n <= p THEN 0 ELSE 1)
    IN  IF o = <<>> THEN -1
        ELSE IF \E p \in 0..32 : IsNetmask(p)
             THEN CHOOSE p \in 0..32 : IsNetmask(p)
        ELSE IF \E p \in 0..32 : IsHostmask(p)
             THEN CHOOSE p \in 0..32 : IsHostmask(p)
        ELSE -1

\* _prefix_from_ip_string (IPv4 only)
prefix_from_ip_string(ip_str) == prefix_from_ip_octets(ip4_octets_from_string(ip_str))

\* try: prefixlen = a  except NetmaskValueError: prefixlen = b
prefix_or(a, b) == IF a # -1 THEN a ELSE b

\* _make_netmask for a string argument: the prefix length, or -1 for
\* NetmaskValueError; only IPv4 accepts a dotted-quad mask
make_netmask(arg, version) ==
    IF version = 4
    THEN prefix_or(prefix_from_prefix_string(arg, version), prefix_from_ip_string(arg))
    ELSE prefix_from_prefix_string(arg, version)

\* IPv6Address._parse_hextet: the hextet, or -1 for ValueError
parse_hextet(hextet_str) ==
    IF \E n \in 1..Len(hextet_str) : hextet_str[n] \notin Elems(HexDigits) THEN -1
    ELSE IF Len(hextet_str) > 4 THEN -1
    ELSE IF Len(hextet_str) = 0 THEN -1
    ELSE IntOf(hextet_str, HexDigits, 16)

\* ip_int <<= 16; ip_int |= hextet, over the eight hextets
RECURSIVE ip6_shift_in(_)
ip6_shift_in(h) ==
    IF Len(h) = 0 THEN 0
    ELSE ip6_shift_in(SubSeq(h, 1, Len(h) - 1)) * 65536 + h[Len(h)]

\* except ValueError: raise AddressValueError
ip6_int(h) == IF \E n \in 1..Len(h) : h[n] = -1 THEN -1 ELSE ip6_shift_in(h)

\* _ip_int_from_string, from parts_hi and parts_lo on: the first parts_hi
\* parts, the skipped zeros, the last parts_lo parts
ip6_from_counts(parts, parts_hi, parts_lo) ==
    ip6_int([n \in 1..8 |->
               IF n <= parts_hi THEN parse_hextet(parts[n])
               ELSE IF n <= 8 - parts_lo THEN 0
               ELSE parse_hextet(parts[Len(parts) - (8 - n)])])

\* _ip_int_from_string, "if skip_index is not None" with its two counts
\* before the endpoints are looked at
ip6_with_skip(parts, hi, lo) ==
    IF parts[1] = <<>> /\ hi - 1 # 0 THEN -1
    ELSE IF parts[Len(parts)] = <<>> /\ lo - 1 # 0 THEN -1
    ELSE IF 8 - ((IF parts[1] = <<>> THEN hi - 1 ELSE hi)
                 + (IF parts[Len(parts)] = <<>> THEN lo - 1 ELSE lo)) < 1 THEN -1
    ELSE ip6_from_counts(parts,
                         IF parts[1] = <<>> THEN hi - 1 ELSE hi,
                         IF parts[Len(parts)] = <<>> THEN lo - 1 ELSE lo)

\* _ip_int_from_string, from the search for '::' on; skips holds the inner
\* positions of empty parts
ip6_from_skips(parts, skips) ==
    IF Cardinality(skips) > 1 THEN -1
    ELSE IF skips # {}
    THEN ip6_with_skip(parts, (CHOOSE n \in skips : TRUE) - 1,
                       Len(parts) - (CHOOSE n \in skips : TRUE))
    ELSE IF Len(parts) # 8 THEN -1
    ELSE IF parts[1] = <<>> \/ parts[Len(parts)] = <<>> THEN -1
    ELSE ip6_from_counts(parts, 8, 0)

\* _ip_int_from_string, from "if len(parts) > _max_parts" on
ip6_from_parts(parts) ==
    IF Len(parts) > 9 THEN -1
    ELSE ip6_from_skips(parts, {n \in 2..(Len(parts) - 1) : parts[n] = <<>>})

\* the IPv4-style suffix v4 converted to two hextets
ip6_with_ipv4_suffix(parts, v4) ==
    IF v4 = <<>> THEN -1
    ELSE ip6_from_parts(SubSeq(parts, 1, Len(parts) - 1)
                        \o <<StrOf(v4[1] * 256 + v4[2], HexDigits, 16),
                             StrOf(v4[3] * 256 + v4[4], HexDigits, 16)>>)

\* _ip_int_from_string, for parts = ip_str.split(':')
ip6_split(parts) ==
    IF Len(parts) < 3 THEN -1
    ELSE IF "." \in Elems(parts[Len(parts)])
    THEN ip6_with_ipv4_suffix(parts, ip4_octets_from_string(parts[Len(parts)]))
    ELSE ip6_from_parts(parts)

\* IPv6Address._ip_int_from_string: the address, or -1 for AddressValueError
ip6_int_from_string(ip_str) ==
    IF Len(ip_str) = 0 THEN -1 ELSE ip6_split(Split(ip_str, ":"))

\* IPv4Network.__init__ / IPv6Network.__init__ with strict=False, once the
\* address and the mask are parsed: packed & int(netmask) clears the host bits
Network(version, packed, prefixlen) ==
    IF packed = -1 THEN Err("AddressValueError")
    ELSE IF prefixlen = -1 THEN Err("NetmaskValueError")
    ELSE [version |-> version,
          network_address |->
              packed - (packed % Pow2(max_prefixlen(version) - prefixlen)),
          prefixlen |-> prefixlen]

\* the network of addr, mask = _split_addr_prefix(address): addr is the split
\* at '/'
split_network(version, addr) ==
    IF Len(addr) > 2 THEN Err("AddressValueError")
    ELSE Network(version,
                 IF version = 4 THEN ip4_int(ip4_octets_from_string(addr[1]))
                                ELSE ip6_int_from_string(addr[1]),
                 IF Len(addr) > 1 THEN make_netmask(addr[2], version)
                                  ELSE max_prefixlen(version))

\* IPv4Network(address, strict=False)
IPv4Network(address) == split_network(4, Split(address, "/"))

\* IPv6Network(address, strict=False)
IPv6Network(address) == split_network(6, Split(address, "/"))

\* try: return v4; except: pass; try: return v6; except: pass; raise ValueError
first_network(v4, v6) ==
    IF ~IsError(v4) THEN v4
    ELSE IF ~IsError(v6) THEN v6
    ELSE Err("ValueError")

\* ipaddress.ip_network(address, strict=False)
ip_network(address) == first_network(IPv4Network(address), IPv6Network(address))

(* ------------------------ ipaddress: formatting ------------------------ *)

\* ip_int.to_bytes(4, 'big')
ip4_bytes(ip_int) ==
    <<ip_int \div 16777216, (ip_int \div 65536) % 256,
      (ip_int \div 256) % 256, ip_int % 256>>

\* '.'.join(map(str, octets))
dotted(octets) == Join([n \in 1..4 |-> StrOf(octets[n], DecDigits, 10)], ".")

\* IPv4Address._string_from_ip_int
ip4_string(ip_int) == dotted(ip4_bytes(ip_int))

\* the hextets of '%032x' % ip_int, the last count of them
RECURSIVE ip6_hextets(_, _)
ip6_hextets(ip_int, count) ==
    IF count = 0 THEN <<>>
    ELSE ip6_hextets(ip_int \div 65536, count - 1) \o <<ip_int % 65536>>

\* _compress_hextets, once the best run of zero hextets is known: strs[bs..be-1]
\* becomes one empty string, with one more at an end of the address it touches
replace_run(strs, bs, be) ==
    (IF bs = 1 THEN <<(<<>>)>> ELSE <<>>)
    \o SubSeq(strs, 1, bs - 1) \o <<(<<>>)>> \o SubSeq(strs, be, Len(strs))
    \o (IF be = Len(strs) + 1 THEN <<(<<>>)>> ELSE <<>>)

\* the first longest of the runs <<start, length>>
best_run(runs) ==
    CHOOSE r \in runs : \A q \in runs : q[2] < r[2] \/ (q[2] = r[2] /\ q[1] >= r[1])

\* if best_doublecolon_len > 1: replace the run
compress_run(strs, runs) ==
    IF runs = {} THEN strs
    ELSE IF best_run(runs)[2] <= 1 THEN strs
    ELSE replace_run(strs, best_run(runs)[1], best_run(runs)[1] + best_run(runs)[2])

\* IPv6Address._compress_hextets of the hextets h
compress_hextets(h) ==
    compress_run([n \in 1..Len(h) |-> StrOf(h[n], HexDigits, 16)],
                 {r \in (1..Len(h)) \X (1..Len(h)) :
                     /\ r[1] + r[2] - 1 <= Len(h)
                     /\ \A n \in r[1]..(r[1] + r[2] - 1) : h[n] = 0})

\* IPv6Address._string_from_ip_int
ip6_string(ip_int) == Join(compress_hextets(ip6_hextets(ip_int, 8)), ":")

\* str(net): '%s/%d' % (self.network_address, self.prefixlen)
Str(net) ==
    (IF net.version = 4 THEN ip4_string(net.network_address)
                        ELSE ip6_string(net.network_address))
    \o <<"/">> \o StrOf(net.prefixlen, DecDigits, 10)

(* ------------------------ ipaddress: networks -------------------------- *)

\* int(self.hostmask) + 1: the number of addresses of the network
num_addresses(net) == Pow2(max_prefixlen(net.version) - net.prefixlen)

broadcast_address(net) == net.network_address + num_addresses(net) - 1

\* _BaseNetwork.subnet_of (_is_subnet_of(a, b)): "True", "False" or "TypeError"
subnet_of(a, b) ==
    IF a.version # b.version THEN "TypeError"
    ELSE IF b.network_address <= a.network_address
            /\ broadcast_address(b) >= broadcast_address(a) THEN "True"
    ELSE "False"

\* list(self.subnets()): the two halves, or the network itself at full length
subnets(net) ==
    IF net.prefixlen = max_prefixlen(net.version) THEN <<net>>
    ELSE <<[version |-> net.version,
            network_address |-> net.network_address,
            prefixlen |-> net.prefixlen + 1],
           [version |-> net.version,
            network_address |-> net.network_address + (num_addresses(net) \div 2),
            prefixlen |-> net.prefixlen + 1]>>

\* yield s; then what the rest of the generator yields, unless it raises
yield_then(s, rest) ==
    IF IsError(rest) THEN rest ELSE [cutouts |-> <<s>> \o rest.cutouts]

\* faulty variant of exclude_loop: the final half equal to other is yielded too
RECURSIVE exclude_loop_keeps_other(_, _)
exclude_loop_keeps_other(s, other) ==
    IF Len(s) # 2 THEN Err("ValueError")
    ELSE IF s[1] # other /\ s[2] # other
    THEN IF subnet_of(other, s[1]) = "True"
         THEN yield_then(s[2], exclude_loop_keeps_other(subnets(s[1]), other))
         ELSE IF subnet_of(other, s[2]) = "True"
         THEN yield_then(s[1], exclude_loop_keeps_other(subnets(s[2]), other))
         ELSE Err("AssertionError")
    ELSE [cutouts |-> s]

\* the loop of address_exclude over s1, s2 = s: [cutouts |-> the networks
\* yielded], or the exception raised
RECURSIVE exclude_loop(_, _)
exclude_loop(s, other) ==
    IF Len(s) # 2 THEN Err("ValueError")
    ELSE IF s[1] # other /\ s[2] # other
    THEN IF subnet_of(other, s[1]) = "True"
         THEN yield_then(s[2], exclude_loop(subnets(s[1]), other))
         ELSE IF subnet_of(other, s[2]) = "True"
         THEN yield_then(s[1], exclude_loop(subnets(s[2]), other))
         ELSE Err("AssertionError")
    ELSE IF s[1] = other THEN [cutouts |-> <<s[2]>>]
    ELSE [cutouts |-> <<s[1]>>]

\* other.__class__('%s/%s' % (other.network_address, other.prefixlen))
network_of(other) == split_network(other.version, Split(Str(other), "/"))

\* faulty variant of address_exclude: one bisection only, the half that holds
\* other is never split further
address_exclude_one_level(self, other) ==
    IF self.version # other.version THEN Err("TypeError")
    ELSE IF subnet_of(other, self) # "True" THEN Err("ValueError")
    ELSE IF other = self THEN [cutouts |-> <<>>]
    ELSE IF subnet_of(other, subnets(self)[1]) = "True"
    THEN [cutouts |-> <<subnets(self)[2]>>]
    ELSE [cutouts |-> <<subnets(self)[1]>>]

\* list(self.address_exclude(other)): [cutouts |-> ...] or the exception
address_exclude(self, other) ==
    IF self.version # other.version THEN Err("TypeError")
    ELSE IF subnet_of(other, self) # "True" THEN Err("ValueError")
    ELSE IF other = self THEN [cutouts |-> <<>>]
    ELSE exclude_loop(subnets(self), network_of(other))

(* ---------------------- calculate_subnet_cutouts ----------------------- *)

\* try: excluded_networks.append(net)  except: continue
append_or_continue(net) == IF IsError(net) THEN <<>> ELSE <<net>>

\* faulty variant of ParseExclusions: except: break
RECURSIVE ParseExclusions_break(_)
ParseExclusions_break(excs) ==
    IF Len(excs) = 0 THEN <<>>
    ELSE IF IsError(ip_network(Head(excs))) THEN <<>>
    ELSE <<ip_network(Head(excs))>> \o ParseExclusions_break(Tail(excs))

\* for exc in exclusions: what the loop appends to excluded_networks
RECURSIVE ParseExclusions(_)
ParseExclusions(excs) ==
    IF Len(excs) = 0 THEN <<>>
    ELSE append_or_continue(ip_network(Head(excs))) \o ParseExclusions(Tail(excs))

\* cutouts = list(network.address_exclude(excluded)); new_remaining.extend(cutouts)
\* except: new_remaining.append(network)
extend_or_keep(cutouts, network) ==
    IF IsError(cutouts) THEN <<network>> ELSE cutouts.cutouts

\* faulty variant of ExcludeFrom: the split network is appended as well (the
\* else is missing)
ExcludeFrom_keeps_network(network, excluded) ==
    IF subnet_of(excluded, network) = "TypeError" THEN <<network>>
    ELSE IF subnet_of(excluded, network) = "True"
    THEN extend_or_keep(address_exclude(network, excluded), network) \o <<network>>
    ELSE <<network>>

\* faulty variant of ExcludeFrom: except: pass
ExcludeFrom_drops_on_error(network, excluded) ==
    IF subnet_of(excluded, network) = "TypeError" THEN <<>>
    ELSE IF subnet_of(excluded, network) = "True"
    THEN extend_or_keep(address_exclude(network, excluded), network)
    ELSE <<network>>

\* faulty variant of ExcludeFrom: no else branch, a network the exclusion is
\* not within is lost
ExcludeFrom_drops_untouched(network, excluded) ==
    IF subnet_of(excluded, network) = "TypeError" THEN <<network>>
    ELSE IF subnet_of(excluded, network) = "True"
    THEN extend_or_keep(address_exclude(network, excluded), network)
    ELSE <<>>

\* the body of "for network in remaining_networks": what one network adds to
\* new_remaining
ExcludeFrom(network, excluded) ==
    IF subnet_of(excluded, network) = "TypeError" THEN <<network>>
    ELSE IF subnet_of(excluded, network) = "True"
    THEN extend_or_keep(address_exclude(network, excluded), network)
    ELSE <<network>>

\* one pass of "for excluded in excluded_networks": the new_remaining it builds
RECURSIVE Subtract(_, _)
Subtract(remaining, excluded) ==
    IF Len(remaining) = 0 THEN <<>>
    ELSE ExcludeFrom(Head(remaining), excluded)
         \o Subtract(Tail(remaining), excluded)

\* remaining_networks after all of "for excluded in excluded_networks"
RECURSIVE SubtractAll(_, _)
SubtractAll(remaining, excluded_list) ==
    IF Len(excluded_list) = 0 THEN remaining
    ELSE SubtractAll(Subtract(remaining, Head(excluded_list)), Tail(excluded_list))

\* x put into the sorted list after the elements that are not greater
insert_sorted(sorted, x) ==
    SubSeq(sorted, 1, Cardinality({n \in 1..Len(sorted) : ~StrLess(x, sorted[n])}))
    \o <<x>>
    \o SubSeq(sorted, Cardinality({n \in 1..Len(sorted) : ~StrLess(x, sorted[n])}) + 1,
              Len(sorted))

\* list.sort() of a list of strings
RECURSIVE Sort(_)
Sort(l) ==
    IF Len(l) = 0 THEN <<>>
    ELSE insert_sorted(Sort(SubSeq(l, 1, Len(l) - 1)), l[Len(l)])

\* result = [str(net) for net in remaining_networks]; result.sort()
SortedStrings(nets) == Sort([n \in 1..Len(nets) |-> Str(nets[n])])

\* faulty variant of Fallback: return []
Fallback_empty(str) == <<>>

\* return [network_str]  # Fallback to original network
Fallback(str) == <<str>>

\* the try block of calculate_subnet_cutouts once main_network is parsed
Cutouts(main, excs) ==
    IF IsError(main) THEN <<>>
    ELSE SortedStrings(SubtractAll(<<main>>, ParseExclusions(excs)))

\* the value calculate_subnet_cutouts returns
calculate_subnet_cutouts(str, excs) ==
    IF IsError(ip_network(str)) THEN Fallback(str)
    ELSE Cutouts(ip_network(str), excs)

(* ------------------------------ the inputs ----------------------------- *)

\* sys.argv[0]
Program == <<"s", "u", "b", "n", "e", "t", "-", "c", "a", "l", "c", "u", "l", "a", "t", "o", "r", ".", "p", "y">>

\* <network> arguments: 10.0.0.0/24, 10.0.0.77/25, ::/124, not-an-ip
NetworkArgs ==
    {<<"1", "0", ".", "0", ".", "0", ".", "0", "/", "2", "4">>,
     <<"1", "0", ".", "0", ".", "0", ".", "7", "7", "/", "2", "5">>,
     <<":", ":", "/", "1", "2", "4">>,
     <<"n", "o", "t", "-", "a", "n", "-", "i", "p">>}

\* exclusion arguments: 10.0.0.0/28, 10.0.0.0/26, 10.0.0.130/25,
\* 10.0.0.200/28, 10.0.0.0/8, ::/127, garbage
ExclusionArgs ==
    {<<"1", "0", ".", "0", ".", "0", ".", "0", "/", "2", "8">>,
     <<"1", "0", ".", "0", ".", "0", ".", "0", "/", "2", "6">>,
     <<"1", "0", ".", "0", ".", "0", ".", "1", "3", "0", "/", "2", "5">>,
     <<"1", "0", ".", "0", ".", "0", ".", "2", "0", "0", "/", "2", "8">>,
     <<"1", "0", ".", "0", ".", "0", ".", "0", "/", "8">>,
     <<":", ":", "/", "1", "2", "7">>,
     <<"g", "a", "r", "b", "a", "g", "e">>}

\* the longest exclusion list on the command line
MaxExclusions == 3

ExclusionLists == UNION {[1..n -> ExclusionArgs] : n \in 0..MaxExclusions}

(* ------------------------------ the program ---------------------------- *)

VARIABLES
    argv,                \* sys.argv
    pc,                  \* the statement the process is at
    network_str,         \* calculate_subnet_cutouts' arguments
    exclusions,
    main_network,        \* its locals
    excluded_networks,
    remaining_networks,
    new_remaining,
    j,                   \* position of "for excluded in excluded_networks"
    k,                   \* position of "for network in remaining_networks"
    result,              \* the list returned (cutouts in main)
    stdout,              \* lines printed
    stderr,
    exit_status          \* -1 while the process runs

vars == <<argv, pc, network_str, exclusions, main_network, excluded_networks,
          remaining_networks, new_remaining, j, k, result, stdout, stderr,
          exit_status>>

None == [none |-> TRUE]

Init ==
    /\ argv \in {<<Program>>}
                \cup {<<Program, n>> \o e : n \in NetworkArgs, e \in ExclusionLists}
    /\ pc = "main"
    /\ network_str = <<>>
    /\ exclusions = <<>>
    /\ main_network = None
    /\ excluded_networks = <<>>
    /\ remaining_networks = <<>>
    /\ new_remaining = <<>>
    /\ j = 1
    /\ k = 1
    /\ result = <<>>
    /\ stdout = <<>>
    /\ stderr = <<>>
    /\ exit_status = -1

\* main: if len(sys.argv) < 2: print usage; sys.exit(1)
Usage ==
    /\ pc = "main"
    /\ Len(argv) < 2
    /\ stderr' = Append(stderr, [text |-> "Usage"])
    /\ exit_status' = 1
    /\ pc' = "exited"
    /\ UNCHANGED <<argv, network_str, exclusions, main_network, excluded_networks,
                   remaining_networks, new_remaining, j, k, result, stdout>>

\* main: cutouts = calculate_subnet_cutouts(sys.argv[1], sys.argv[2:])
Call ==
    /\ pc = "main"
    /\ Len(argv) >= 2
    /\ network_str' = argv[2]
    /\ exclusions' = SubSeq(argv, 3, Len(argv))
    /\ pc' = "parse_main"
    /\ UNCHANGED <<argv, main_network, excluded_networks, remaining_networks,
                   new_remaining, j, k, result, stdout, stderr, exit_status>>

\* main_network = ipaddress.ip_network(network_str, strict=False)
ParseMainOk ==
    /\ pc = "parse_main"
    /\ \E net \in {ip_network(network_str)} :
          /\ ~IsError(net)
          /\ main_network' = net
    /\ excluded_networks' = <<>>
    /\ pc' = "for_exc"
    /\ UNCHANGED <<argv, network_str, exclusions, remaining_networks,
                   new_remaining, j, k, result, stdout, stderr, exit_status>>

\* ip_network raises: except Exception as e: print(..., file=sys.stderr);
\* return [network_str]
ParseMainFail ==
    /\ pc = "parse_main"
    /\ \E e \in {ip_network(network_str)} :
          /\ IsError(e)
          /\ stderr' = Append(stderr, [text |-> "Error calculating cutouts",
                                       e |-> e.error])
    /\ result' = Fallback(network_str)
    /\ pc' = "return"
    /\ UNCHANGED <<argv, network_str, exclusions, main_network, excluded_networks,
                   remaining_networks, new_remaining, j, k, stdout, exit_status>>

\* for exc in exclusions: try: excluded_networks.append(ip_network(exc,
\* strict=False))  except: continue
ParseExclusionList ==
    /\ pc = "for_exc"
    /\ excluded_networks' = ParseExclusions(exclusions)
    /\ pc' = "subtract"
    /\ UNCHANGED <<argv, network_str, exclusions, main_network,
                   remaining_networks, new_remaining, j, k, result, stdout,
                   stderr, exit_status>>

\* remaining_networks = [main_network]
StartSubtraction ==
    /\ pc = "subtract"
    /\ remaining_networks' = <<main_network>>
    /\ j' = 1
    /\ pc' = "for_excluded"
    /\ UNCHANGED <<argv, network_str, exclusions, main_network, excluded_networks,
                   new_remaining, k, result, stdout, stderr, exit_status>>

\* for excluded in excluded_networks: new_remaining = []
NextExcluded ==
    /\ pc = "for_excluded"
    /\ j <= Len(excluded_networks)
    /\ new_remaining' = <<>>
    /\ k' = 1
    /\ pc' = "for_network"
    /\ UNCHANGED <<argv, network_str, exclusions, main_network, excluded_networks,
                   remaining_networks, j, result, stdout, stderr, exit_status>>

\* excluded.subnet_of(network): new_remaining.extend(cutouts)
ExcludeSplit ==
    /\ pc = "for_network"
    /\ k <= Len(remaining_networks)
    /\ subnet_of(excluded_networks[j], remaining_networks[k]) = "True"
    /\ ~IsError(address_exclude(remaining_networks[k], excluded_networks[j]))
    /\ new_remaining' = new_remaining
                        \o ExcludeFrom(remaining_networks[k], excluded_networks[j])
    /\ k' = k + 1
    /\ UNCHANGED <<argv, pc, network_str, exclusions, main_network,
                   excluded_networks, remaining_networks, j, result, stdout,
                   stderr, exit_status>>

\* else: new_remaining.append(network)
ExcludeKeep ==
    /\ pc = "for_network"
    /\ k <= Len(remaining_networks)
    /\ subnet_of(excluded_networks[j], remaining_networks[k]) = "False"
    /\ new_remaining' = new_remaining
                        \o ExcludeFrom(remaining_networks[k], excluded_networks[j])
    /\ k' = k + 1
    /\ UNCHANGED <<argv, pc, network_str, exclusions, main_network,
                   excluded_networks, remaining_networks, j, result, stdout,
                   stderr, exit_status>>

\* except: new_remaining.append(network)
ExcludeError ==
    /\ pc = "for_network"
    /\ k <= Len(remaining_networks)
    /\ \/ subnet_of(excluded_networks[j], remaining_networks[k]) = "TypeError"
       \/ /\ subnet_of(excluded_networks[j], remaining_networks[k]) = "True"
          /\ IsError(address_exclude(remaining_networks[k], excluded_networks[j]))
    /\ new_remaining' = new_remaining
                        \o ExcludeFrom(remaining_networks[k], excluded_networks[j])
    /\ k' = k + 1
    /\ UNCHANGED <<argv, pc, network_str, exclusions, main_network,
                   excluded_networks, remaining_networks, j, result, stdout,
                   stderr, exit_status>>

\* remaining_networks = new_remaining
EndExcluded ==
    /\ pc = "for_network"
    /\ k > Len(remaining_networks)
    /\ remaining_networks' = new_remaining
    /\ j' = j + 1
    /\ pc' = "for_excluded"
    /\ UNCHANGED <<argv, network_str, exclusions, main_network, excluded_networks,
                   new_remaining, k, result, stdout, stderr, exit_status>>

\* result = [str(net) for net in remaining_networks]; result.sort(); return
Return ==
    /\ pc = "for_excluded"
    /\ j > Len(excluded_networks)
    /\ result' = SortedStrings(remaining_networks)
    /\ pc' = "return"
    /\ UNCHANGED <<argv, network_str, exclusions, main_network, excluded_networks,
                   remaining_networks, new_remaining, j, k, stdout, stderr,
                   exit_status>>

\* main: for cutout in cutouts: print(cutout); the process ends with status 0
PrintCutouts ==
    /\ pc = "return"
    /\ stdout' = stdout \o result
    /\ exit_status' = 0
    /\ pc' = "exited"
    /\ UNCHANGED <<argv, network_str, exclusions, main_network, excluded_networks,
                   remaining_networks, new_remaining, j, k, result, stderr>>

Next ==
    \/ Usage
    \/ Call
    \/ ParseMainOk
    \/ ParseMainFail
    \/ ParseExclusionList
    \/ StartSubtraction
    \/ NextExcluded
    \/ ExcludeSplit
    \/ ExcludeKeep
    \/ ExcludeError
    \/ EndExcluded
    \/ Return
    \/ PrintCutouts

Spec == Init /\ [][Next]_vars

(* ------------------------------ properties ----------------------------- *)

\* the first and the last address of a block, as integers
Lo(net) == net.network_address

Hi(net) == net.network_address + Pow2(max_prefixlen(net.version) - net.prefixlen) - 1

\* block a lies fully inside block b
Within(a, b) == a.version = b.version /\ Lo(b) <= Lo(a) /\ Hi(a) <= Hi(b)

\* the address ranges of a and b share an address
Overlap(a, b) == a.version = b.version /\ Lo(a) <= Hi(b) /\ Lo(b) <= Hi(a)

\* two blocks of one prefix length p whose addresses differ only in bit p
Siblings(a, b) ==
    /\ a.version = b.version
    /\ a.prefixlen = b.prefixlen
    /\ a.prefixlen >= 1
    /\ Lo(a) # Lo(b)
    /\ Lo(a) \div (2 * (Hi(a) - Lo(a) + 1)) = Lo(b) \div (2 * (Hi(b) - Lo(b) + 1))

\* the block of prefix length p that contains net
AncestorAt(net, p) ==
    [version |-> net.version,
     network_address |-> Lo(net) - (Lo(net) % Pow2(max_prefixlen(net.version) - p)),
     prefixlen |-> p]

\* the other half of net's parent
SiblingOf(net) ==
    [version |-> net.version,
     network_address |-> IF (Lo(net) \div (Hi(net) - Lo(net) + 1)) % 2 = 0
                         THEN Hi(net) + 1
                         ELSE Lo(net) - (Hi(net) - Lo(net) + 1),
     prefixlen |-> net.prefixlen]

\* the addresses of a set of blocks, each address with its family
Addresses(nets) == UNION {{<<net.version, a>> : a \in Lo(net)..Hi(net)} : net \in nets}

Items(seq) == {seq[n] : n \in 1..Len(seq)}

\* the base network parsed, so the engine ran
BaseParsed == main_network # None

\* the process has printed the cutouts of a parsed base
Finished == pc = "exited" /\ BaseParsed

\* the blocks returned, read back from the strings of the result
ResultBlocks == {ip_network(result[n]) : n \in 1..Len(result)}

\* the exclusions of the command line that parse
ValidExclusions ==
    {e \in {ip_network(exclusions[n]) : n \in 1..Len(exclusions)} : ~IsError(e)}

\* the exclusions fully contained in the base
ContainedExclusions == {e \in ValidExclusions : Within(e, main_network)}

\* the frontier is remaining_networks, after j - 1 exclusions
HasFrontier == BaseParsed /\ pc \in {"for_excluded", "for_network", "return", "exited"}

\* positions (from first on) of the exclusions of excl that lie within a block
\* of the frontier at the moment they are processed
RECURSIVE AppliedIn(_, _, _)
AppliedIn(frontier, excl, first) ==
    IF Len(excl) = 0 THEN {}
    ELSE (IF \E n \in 1..Len(frontier) : Within(Head(excl), frontier[n])
          THEN {first} ELSE {})
         \cup AppliedIn(Subtract(frontier, Head(excl)), Tail(excl), first + 1)

\* the exclusions processed so far that were within a frontier block when
\* they were processed
Applied ==
    {excluded_networks[n] :
        n \in AppliedIn(<<main_network>>, SubSeq(excluded_networks, 1, j - 1), 1)}

\* C1: the union of the ranges of the returned blocks is the range of the base
\* minus the ranges of all exclusions fully contained in the base, whatever the
\* order of the exclusions and whether or not one contains another.
C1_Coverage ==
    Finished =>
        Addresses(ResultBlocks)
            = Addresses({main_network}) \ Addresses(ContainedExclusions)

\* C2: every permutation of the exclusion list gives the same result list.
C2_OrderIndependence ==
    Finished =>
        \A f \in Permutations(DOMAIN exclusions) :
            calculate_subnet_cutouts(network_str,
                                     [n \in DOMAIN exclusions |-> exclusions[f[n]]])
                = result

\* C3: the returned list is sorted by numeric address ascending, ties broken by
\* prefix length ascending.
C3_NumericOrder ==
    Finished =>
        \A n \in 1..(Len(result) - 1) :
            \E a \in {ip_network(result[n])}, b \in {ip_network(result[n + 1])} :
                \/ Lo(a) < Lo(b)
                \/ Lo(a) = Lo(b) /\ a.prefixlen <= b.prefixlen

\* C4: after any sequence of exclusions, no two distinct blocks of the frontier,
\* and no two blocks of the result, are siblings.
C4_NoSiblings ==
    /\ HasFrontier =>
          \A m, n \in DOMAIN remaining_networks :
              m # n => ~Siblings(remaining_networks[m], remaining_networks[n])
    /\ Finished => \A a, b \in ResultBlocks : ~Siblings(a, b)

\* two exclusions are processed and the frontier holds two blocks of one length
C4_Witness ==
    /\ pc = "for_excluded"
    /\ j >= 3
    /\ \E m, n \in DOMAIN remaining_networks :
          m # n /\ remaining_networks[m].prefixlen = remaining_networks[n].prefixlen

\* C5: after each exclusion, and in the result, the blocks are pairwise disjoint.
C5_Disjoint ==
    /\ HasFrontier =>
          \A m, n \in DOMAIN remaining_networks :
              m # n => ~Overlap(remaining_networks[m], remaining_networks[n])
    /\ Finished =>
          /\ Cardinality(ResultBlocks) = Len(result)
          /\ \A a, b \in ResultBlocks : a # b => ~Overlap(a, b)

\* a result of six blocks or more: two blocks were split
C5_Witness == Finished /\ Len(result) >= 6

C7_MalformedDropped ==
    (pc = "exited" /\ Len(argv) >= 2) =>
        LET Parses(exc) == ~IsError(ip_network(exc))
        IN  /\ result = calculate_subnet_cutouts(network_str,
                                                 SelectSeq(exclusions, Parses))
            /\ Parses(network_str) => stderr = <<>>

\* a malformed exclusion came first and a later exclusion split the base
C7_Witness ==
    /\ Finished
    /\ Len(exclusions) >= 2
    /\ IsError(ip_network(exclusions[1]))
    /\ Len(result) >= 3

\* C8: with a base that fails to parse, no exclusion is processed, the result is
\* the one-element list of the unparsed base string, a diagnostic is on the error
\* stream and the exit status is 0.
C8_BaseFallback ==
    (pc = "exited" /\ Len(argv) >= 2 /\ IsError(ip_network(argv[2]))) =>
        /\ result = <<argv[2]>>
        /\ stdout = <<argv[2]>>
        /\ stderr = <<[text |-> "Error calculating cutouts", e |-> "ValueError"]>>
        /\ exit_status = 0
        /\ main_network = None
        /\ excluded_networks = <<>>
        /\ remaining_networks = <<>>
        /\ new_remaining = <<>>

\* the process ended on an unparseable base given with exclusions
C8_Witness == pc = "exited" /\ Len(argv) >= 3 /\ IsError(ip_network(argv[2]))

\* C9: a block B (length b) that contains the exclusion E (length e) is replaced
\* by exactly e - b blocks, one per length b+1 .. e, each the sibling of E's
\* ancestor of that length; E is not among them, and none at all when E = B.
C9_SplitShape ==
    [][(/\ pc = "for_network"
        /\ k <= Len(remaining_networks)
        /\ Within(excluded_networks[j], remaining_networks[k]))
       => \E E \in {excluded_networks[j]}, B \in {remaining_networks[k]},
             added \in {SubSeq(new_remaining', Len(new_remaining) + 1,
                               Len(new_remaining'))} :
             /\ SubSeq(new_remaining', 1, Len(new_remaining)) = new_remaining
             /\ Len(added) = E.prefixlen - B.prefixlen
             /\ \A p \in (B.prefixlen + 1)..E.prefixlen :
                   \E n \in DOMAIN added : added[n] = SiblingOf(AncestorAt(E, p))
             /\ \A n \in DOMAIN added : added[n] # E
             /\ E = B => added = <<>>]_vars

\* a block was just replaced by three blocks or more
C9_Witness ==
    /\ pc = "for_network"
    /\ k >= 2
    /\ Within(excluded_networks[j], remaining_networks[k - 1])
    /\ excluded_networks[j].prefixlen - remaining_networks[k - 1].prefixlen >= 3
    /\ Len(new_remaining) >= 3

====
